---- MODULE Spec2Model ----
(***************************************************************************)
(* Huffman encoder: histogram -> tree -> code table -> header + bit-packed  *)
(* payload (src/io_helpers.py, src/huffman/tree.py, src/huffman/encoder.py).*)
(*                                                                         *)
(* Representation choices:                                                 *)
(*  - a Python dict is a sequence of <<key, value>> pairs in insertion      *)
(*    order (histogram) or a function on its key set (code table, whose     *)
(*    iteration order is never used);                                       *)
(*  - a Python int that counts bytes is unbounded, so a count is a          *)
(*    little-endian sequence of base-256 digits without leading zeros       *)
(*    (<<>> is 0, <<44, 1>> is 300, <<0,0,0,0,1>> is 2^32);                 *)
(*  - a bit string ("0"/"1" characters) is a sequence over {0, 1};          *)
(*  - bytes / bytearray are sequences over 0..255.                          *)
(***************************************************************************)
EXTENDS Integers, Sequences, FiniteSets, TLC

VARIABLES
    pc,           \* position in encode_file / in the function under test
    src,          \* content of the source file
    blocksize,    \* encode_file's blocksize argument
    histogram,    \* encode_file: histogram
    scanned,      \* number of bytes the Scan pass iterated over (a count)
    header,       \* encode_file: header
    tree,         \* build_lut_from_histogram: tree
    enc_lut,      \* encode_file: enc_lut
    pos,          \* read offset of the src handle of the second pass
    bit_seq,      \* encode_file: bit_seq
    write_buffer, \* encode_file: write_buffer
    dst,          \* content of the destination file
    error         \* the exception that ended the run, or NoError

vars == <<pc, src, blocksize, histogram, scanned, header, tree, enc_lut,
          pos, bit_seq, write_buffer, dst, error>>

----------------------------------------------------------------------------
(* Bounds *)

MaxLen == 6        \* longest source file of the pipeline
MaxBlock == 3      \* largest blocksize
MaxChLen == 3      \* longest source file of the runs where the source changes
MaxWrite == 3      \* longest chunk written into the source between the passes
MaxCount == 5      \* largest count of the histograms given to the tree builder
MaxBits == 16      \* longest bit string handed to the bit packer alone

Bytes == {65, 66, 67}          \* byte values of the source files
OtherBytes == {68}             \* a byte value only a changed source holds
HKeys == {65, 66, 67, 68}      \* keys of the directly given histograms

----------------------------------------------------------------------------
(* Generic helpers *)

\* the sequences over S of length 0..n
SeqsUpTo(S, n) == UNION {[1..k -> S] : k \in 0..n}

Min2(a, b) == IF a < b THEN a ELSE b

\* s[from..] and s[..to] with Python's 0-based slice bounds
Drop(s, n) == SubSeq(s, n + 1, Len(s))
Take(s, n) == SubSeq(s, 1, Min2(n, Len(s)))

----------------------------------------------------------------------------
(* Python int (unbounded): little-endian base-256 digits, no leading zero *)

RECURSIVE WNat(_)
WNat(n) == IF n = 0 THEN <<>> ELSE <<n % 256>> \o WNat(n \div 256)

WDigit(c, i) == IF i <= Len(c) THEN c[i] ELSE 0

RECURSIVE WTrim(_)
WTrim(c) ==
    IF c # <<>> /\ c[Len(c)] = 0 THEN WTrim(SubSeq(c, 1, Len(c) - 1)) ELSE c

RECURSIVE WAddFrom(_, _, _, _)
WAddFrom(a, b, i, carry) ==
    IF i > Len(a) /\ i > Len(b)
    THEN IF carry = 0 THEN <<>> ELSE <<carry>>
    ELSE LET d == WDigit(a, i) + WDigit(b, i) + carry
         IN <<d % 256>> \o WAddFrom(a, b, i + 1, d \div 256)

\* a + b
WAdd(a, b) == WTrim(WAddFrom(a, b, 1, 0))

RECURSIVE WLessFrom(_, _, _)
WLessFrom(a, b, i) ==
    IF i = 0 THEN FALSE
    ELSE IF a[i] # b[i] THEN a[i] < b[i]
    ELSE WLessFrom(a, b, i - 1)

\* a < b, a <= b
WLess(a, b) ==
    IF Len(a) # Len(b) THEN Len(a) < Len(b) ELSE WLessFrom(a, b, Len(a))
WLeq(a, b) == ~WLess(b, a)

\* (c >> 8*k) & 0xFF
WShiftMask(c, k) == WDigit(c, k + 1)

\* c * n for a small n >= 0
RECURSIVE WTimes(_, _)
WTimes(c, n) == IF n = 0 THEN <<>> ELSE WAdd(c, WTimes(c, n - 1))

\* the sum of cs[lo..hi], by halves
RECURSIVE WSumRange(_, _, _)
WSumRange(cs, lo, hi) ==
    IF lo > hi THEN <<>>
    ELSE IF lo = hi THEN cs[lo]
    ELSE LET mid == (lo + hi) \div 2
         IN WAdd(WSumRange(cs, lo, mid), WSumRange(cs, mid + 1, hi))

WSum(cs) == WSumRange(cs, 1, Len(cs))

\* list.sort(key=...) / sorted(..., key=...): ascending and stable. keys[i] is
\* the key (a count) of element i; the result lists the indices in sorted order.
RECURSIVE InsertStable(_, _, _)
InsertStable(sorted, x, keys) ==
    IF sorted = <<>> THEN <<x>>
    ELSE LET last == sorted[Len(sorted)]
         IN IF WLeq(keys[last], keys[x]) THEN Append(sorted, x)
            ELSE Append(InsertStable(SubSeq(sorted, 1, Len(sorted) - 1), x, keys), last)

RECURSIVE StableOrderFrom(_, _, _)
StableOrderFrom(sorted, i, keys) ==
    IF i > Len(keys) THEN sorted
    ELSE StableOrderFrom(InsertStable(sorted, i, keys), i + 1, keys)

StableSort(s, keys) ==
    LET order == StableOrderFrom(<<>>, 1, keys)
    IN [i \in 1..Len(s) |-> s[order[i]]]

----------------------------------------------------------------------------
(* dict[int, int] in insertion order *)

DictKeys(d) == {d[i][1] : i \in 1..Len(d)}
DictHas(d, k) == \E i \in 1..Len(d) : d[i][1] = k
\* d.get(k, default)
DictGet(d, k, default) ==
    IF DictHas(d, k) THEN d[CHOOSE i \in 1..Len(d) : d[i][1] = k][2] ELSE default
\* d[k] = v: an existing key keeps its place, a new key goes last
DictSet(d, k, v) ==
    IF DictHas(d, k)
    THEN [i \in 1..Len(d) |-> IF d[i][1] = k THEN <<k, v>> ELSE d[i]]
    ELSE Append(d, <<k, v>>)

----------------------------------------------------------------------------
(* src/io_helpers.py: get_byte_histogram_from_file *)

ScanBlockSize == 1024

\* for byte in data_block: byte_histogram[byte] = byte_histogram.get(byte, 0) + 1
RECURSIVE CountBlock(_, _)
CountBlock(byte_histogram, data_block) ==
    IF data_block = <<>> THEN byte_histogram
    ELSE LET byte == Head(data_block)
         IN CountBlock(DictSet(byte_histogram, byte,
                               WAdd(DictGet(byte_histogram, byte, <<>>), WNat(1))),
                       Tail(data_block))

\* while data_block := file.read(blocksize): ...
RECURSIVE CountBlocks(_, _, _)
CountBlocks(byte_histogram, data, bs) ==
    IF data = <<>> THEN byte_histogram
    ELSE CountBlocks(CountBlock(byte_histogram, Take(data, bs)), Drop(data, Min2(bs, Len(data))), bs)

GetByteHistogramFromFile(data, bs) == CountBlocks(<<>>, data, bs)

----------------------------------------------------------------------------
(* src/huffman/tree.py *)

None == [kind |-> "none"]
HuffmanLeaf(byte_counter, byte_value) ==
    [kind |-> "leaf", byte_counter |-> byte_counter, byte_value |-> byte_value]
HuffmanBranch(byte_counter, left, right) ==
    [kind |-> "branch", byte_counter |-> byte_counter, left |-> left, right |-> right]

\* the leaves in insertion order, not sorted
GetLeavesUnsorted(byte_histogram) ==
    [i \in 1..Len(byte_histogram) |->
        HuffmanLeaf(byte_histogram[i][2], byte_histogram[i][1])]

\* the entries counted zero times get no leaf
GetLeavesOfPositive(byte_histogram) ==
    GetLeavesUnsorted(SelectSeq(
        IF byte_histogram = <<>> THEN <<>>
        ELSE StableSort(byte_histogram,
                        [i \in 1..Len(byte_histogram) |-> byte_histogram[i][2]]),
        LAMBDA item : item[2] # <<>>))

\* sorted(byte_histogram.items(), key=lambda item: item[1]), then one leaf per item
GetLeavesFromHistogram(byte_histogram) ==
    IF byte_histogram = <<>> THEN <<>>
    ELSE LET sorted_tuples ==
                 StableSort(byte_histogram,
                            [i \in 1..Len(byte_histogram) |-> byte_histogram[i][2]])
         IN [i \in 1..Len(sorted_tuples) |->
                HuffmanLeaf(sorted_tuples[i][2], sorted_tuples[i][1])]

\* the new branch goes in front of the nodes of its weight instead of behind them
MergeStepBranchFirst(nodes) ==
    LET left == nodes[1]
        right == nodes[2]
        combined == HuffmanBranch(WAdd(left.byte_counter, right.byte_counter), left, right)
        prepended == <<combined>> \o SubSeq(nodes, 3, Len(nodes))
    IN StableSort(prepended, [i \in 1..Len(prepended) |-> prepended[i].byte_counter])

\* one iteration of the while loop of get_tree_from_leaves (len(nodes) > 1)
MergeStep(nodes) ==
    LET left == nodes[1]
        right == nodes[2]
        combined == HuffmanBranch(WAdd(left.byte_counter, right.byte_counter), left, right)
        appended == Append(SubSeq(nodes, 3, Len(nodes)), combined)
    IN StableSort(appended, [i \in 1..Len(appended) |-> appended[i].byte_counter])

RECURSIVE GetTreeFromLeaves(_)
GetTreeFromLeaves(nodes) ==
    IF Len(nodes) > 1 THEN GetTreeFromLeaves(MergeStep(nodes))
    ELSE IF nodes # <<>> THEN nodes[1] ELSE None

\* lookup_table[k] = v
LutSet(lookup_table, k, v) ==
    [x \in (DOMAIN lookup_table) \cup {k} |-> IF x = k THEN v ELSE lookup_table[x]]

\* the right child gets '0' like the left one
RECURSIVE TraverseStackSameBit(_, _)
TraverseStackSameBit(traversal_stack, lookup_table) ==
    IF traversal_stack = <<>> THEN lookup_table
    ELSE LET top == traversal_stack[Len(traversal_stack)]
             node == top[1]
             bit_string == top[2]
             popped == SubSeq(traversal_stack, 1, Len(traversal_stack) - 1)
         IN IF node.kind = "leaf"
            THEN TraverseStackSameBit(popped,
                     [x \in (DOMAIN lookup_table) \cup {node.byte_value} |->
                         IF x = node.byte_value THEN bit_string ELSE lookup_table[x]])
            ELSE TraverseStackSameBit(popped \o << <<node.left, Append(bit_string, 0)>>,
                                                   <<node.right, Append(bit_string, 0)>> >>,
                                      lookup_table)

\* the while traversal_stack loop of get_lut_from_tree
RECURSIVE TraverseStack(_, _)
TraverseStack(traversal_stack, lookup_table) ==
    IF traversal_stack = <<>> THEN lookup_table
    ELSE LET top == traversal_stack[Len(traversal_stack)]
             node == top[1]
             bit_string == top[2]
             popped == SubSeq(traversal_stack, 1, Len(traversal_stack) - 1)
         IN IF node.kind = "leaf"
            THEN TraverseStack(popped, LutSet(lookup_table, node.byte_value, bit_string))
            ELSE IF node.kind = "branch"
            THEN TraverseStack(popped \o << <<node.left, Append(bit_string, 0)>>,
                                            <<node.right, Append(bit_string, 1)>> >>,
                               lookup_table)
            ELSE TraverseStack(popped, lookup_table)

\* without the edge case of a tree of one leaf
GetLutNoLeafCase(huffman_tree) ==
    IF huffman_tree = None THEN <<>>
    ELSE TraverseStack(<< <<huffman_tree, <<>> >> >>, <<>>)

GetLutFromTree(huffman_tree) ==
    IF huffman_tree = None THEN <<>>
    ELSE IF huffman_tree.kind = "leaf" THEN LutSet(<<>>, huffman_tree.byte_value, <<0>>)
    ELSE TraverseStack(<< <<huffman_tree, <<>> >> >>, <<>>)

\* a synthetic leaf of weight 0 and no byte value joins the leaf of a single key
BuildTreeSynthetic(byte_histogram) ==
    LET leaves == GetLeavesFromHistogram(byte_histogram)
    IN GetTreeFromLeaves(IF Len(leaves) = 1
                         THEN <<[kind |-> "leaf", byte_counter |-> <<>>, byte_value |-> -1]>> \o leaves
                         ELSE leaves)

BuildTree(byte_histogram) == GetTreeFromLeaves(GetLeavesFromHistogram(byte_histogram))

\* get_lut_from_tree(tree) if tree else {}: an object without __bool__/__len__ is
\* truthy, so only None takes the else branch
LutOfTree(t) == IF t # None THEN GetLutFromTree(t) ELSE <<>>

BuildLutFromHistogram(byte_histogram) == LutOfTree(BuildTree(byte_histogram))

----------------------------------------------------------------------------
(* src/huffman/encoder.py *)

GetBytesLittleEndian(byte_value, count) ==
    << byte_value % 256,
       WShiftMask(count, 0), WShiftMask(count, 1), WShiftMask(count, 2), WShiftMask(count, 3) >>

GetBytesFromHistogramEntry(byte_value, count) ==
    << byte_value % 256,
       WShiftMask(count, 3), WShiftMask(count, 2), WShiftMask(count, 1), WShiftMask(count, 0) >>

Magic == <<72, 85, 70, 70>>     \* b"HUFF"

\* for byte_value, count in byte_histogram.items(): file_header += entry bytes.
\* The entries of items[lo..hi] in order, concatenated by halves.
RECURSIVE SerializeEntries(_, _, _)
SerializeEntries(items, lo, hi) ==
    IF lo > hi THEN <<>>
    ELSE IF lo = hi THEN GetBytesFromHistogramEntry(items[lo][1], items[lo][2])
    ELSE LET mid == (lo + hi) \div 2
         IN SerializeEntries(items, lo, mid) \o SerializeEntries(items, mid + 1, hi)

GetFileHeaderFromHistogram(byte_histogram) ==
    LET length == Len(byte_histogram)
    IN Magic \o <<(length \div 256) % 256, length % 256>>
             \o SerializeEntries(byte_histogram, 1, length)

\* The result of get_bit_seq_from_data_block: the bit string, or the ValueError
ValueError(byte) == [kind |-> "ValueError", byte |-> byte]
NoError == [kind |-> "none"]

\* a missing byte is skipped instead of raising
RECURSIVE EncodeBytesSkipMissing(_, _, _)
EncodeBytesSkipMissing(bit_sequence, data_block, encoding_table) ==
    IF data_block = <<>> THEN [raised |-> NoError, bits |-> bit_sequence]
    ELSE LET byte == Head(data_block)
         IN IF byte \notin DOMAIN encoding_table
            THEN EncodeBytesSkipMissing(bit_sequence, Tail(data_block), encoding_table)
            ELSE EncodeBytesSkipMissing(bit_sequence \o encoding_table[byte],
                                        Tail(data_block), encoding_table)

RECURSIVE EncodeBytes(_, _, _)
EncodeBytes(bit_sequence, data_block, encoding_table) ==
    IF data_block = <<>> THEN [raised |-> NoError, bits |-> bit_sequence]
    ELSE LET byte == Head(data_block)
         IN IF byte \notin DOMAIN encoding_table
            THEN [raised |-> ValueError(byte), bits |-> <<>>]
            ELSE EncodeBytes(bit_sequence \o encoding_table[byte], Tail(data_block),
                             encoding_table)

GetBitSeqFromDataBlock(data_block, encoding_table) ==
    EncodeBytes(<<>>, data_block, encoding_table)

\* int(bit_str, 2)
RECURSIVE IntBase2LsbFirst(_)
IntBase2LsbFirst(bit_str) ==
    IF bit_str = <<>> THEN 0 ELSE Head(bit_str) + 2 * IntBase2LsbFirst(Tail(bit_str))

RECURSIVE IntBase2From(_, _)
IntBase2From(acc, bit_str) ==
    IF bit_str = <<>> THEN acc ELSE IntBase2From(2 * acc + Head(bit_str), Tail(bit_str))
IntBase2(bit_str) == IntBase2From(0, bit_str)

RECURSIVE PackLoop(_, _)
PackLoop(bits, buffer) ==
    IF Len(bits) >= 8
    THEN PackLoop(Drop(bits, 8), Append(buffer, IntBase2(Take(bits, 8))))
    ELSE <<bits, buffer>>

\* returns <<remaining bits, write buffer>>
GetWriteBufferDropsRemainder(bits) == << <<>>, PackLoop(bits, <<>>)[2] >>

GetWriteBufferFromBitSeq(bits) == PackLoop(bits, <<>>)

----------------------------------------------------------------------------
(* src/io_helpers.py: encode_file, one action per step *)

\* line 58: the first pass
Scan ==
    /\ pc = "start"
    /\ histogram' = GetByteHistogramFromFile(src, ScanBlockSize)
    /\ scanned' = WNat(Len(src))
    /\ pc' = "scanned"
    /\ UNCHANGED <<src, blocksize, header, tree, enc_lut, pos, bit_seq, write_buffer,
                   dst, error>>

\* lines 61-64: header and code table from the same histogram
Prepare ==
    /\ pc = "scanned"
    /\ header' = GetFileHeaderFromHistogram(histogram)
    /\ tree' = BuildTree(histogram)
    /\ enc_lut' = BuildLutFromHistogram(histogram)
    /\ pc' = "prepared"
    /\ UNCHANGED <<src, blocksize, histogram, scanned, pos, bit_seq, write_buffer,
                   dst, error>>

\* lines 66-73: both files are opened, the header is written
OpenAndWriteHeader ==
    /\ pc \in {"prepared", "modified"}
    /\ pos' = 0
    /\ bit_seq' = <<>>
    /\ write_buffer' = <<>>
    /\ dst' = header
    /\ pc' = "stream"
    /\ UNCHANGED <<src, blocksize, histogram, scanned, header, tree, enc_lut, error>>

\* lines 76-84: one iteration of the while loop, src.read returned a block
StreamBlock ==
    /\ pc = "stream"
    /\ pos < Len(src)
    /\ LET data_block == Take(Drop(src, pos), blocksize)
           encoded == GetBitSeqFromDataBlock(data_block, enc_lut)
       IN IF encoded.raised # NoError
          THEN /\ error' = encoded.raised
               /\ pc' = "failed"
               /\ UNCHANGED <<pos, bit_seq, write_buffer, dst>>
          ELSE LET packed == GetWriteBufferFromBitSeq(bit_seq \o encoded.bits)
               IN /\ pos' = pos + Len(data_block)
                  /\ bit_seq' = packed[1]
                  /\ write_buffer' = packed[2]
                  /\ dst' = dst \o packed[2]
                  /\ UNCHANGED <<pc, error>>
    /\ UNCHANGED <<src, blocksize, histogram, scanned, header, tree, enc_lut>>

\* lines 76, 87-90: src.read returned b"", the final padding
Finish ==
    /\ pc = "stream"
    /\ pos >= Len(src)
    /\ IF bit_seq # <<>>
       THEN LET padded == bit_seq \o [i \in 1..(8 - Len(bit_seq)) |-> 0]
                packed == GetWriteBufferFromBitSeq(padded)
            IN /\ bit_seq' = padded
               /\ write_buffer' = packed[2]
               /\ dst' = dst \o packed[2]
       ELSE UNCHANGED <<bit_seq, write_buffer, dst>>
    /\ pc' = "done"
    /\ UNCHANGED <<src, blocksize, histogram, scanned, header, tree, enc_lut, pos, error>>

\* The environment: between the two passes another process truncates the source
\* at some offset and writes a chunk there
ModifySource ==
    /\ pc = "prepared"
    /\ \E offset \in 0..Len(src), chunk \in SeqsUpTo(Bytes \cup OtherBytes, MaxWrite) :
           /\ Take(src, offset) \o chunk # src
           /\ src' = Take(src, offset) \o chunk
    /\ pc' = "modified"
    /\ UNCHANGED <<blocksize, histogram, scanned, header, tree, enc_lut, pos,
                   bit_seq, write_buffer, dst, error>>

\* build_lut_from_histogram called on its own
BuildLut ==
    /\ pc = "call_lut"
    /\ tree' = BuildTree(histogram)
    /\ enc_lut' = BuildLutFromHistogram(histogram)
    /\ pc' = "lut_done"
    /\ UNCHANGED <<src, blocksize, histogram, scanned, header, pos, bit_seq,
                   write_buffer, dst, error>>

\* get_file_header_from_histogram called on its own
SerializeHeader ==
    /\ pc = "call_header"
    /\ header' = GetFileHeaderFromHistogram(histogram)
    /\ pc' = "header_done"
    /\ UNCHANGED <<src, blocksize, histogram, scanned, tree, enc_lut, pos, bit_seq,
                   write_buffer, dst, error>>

\* get_write_buffer_from_bit_seq called on its own; src keeps the argument
Pack ==
    /\ pc = "call_pack"
    /\ LET packed == GetWriteBufferFromBitSeq(bit_seq)
       IN /\ bit_seq' = packed[1]
          /\ write_buffer' = packed[2]
    /\ pc' = "pack_done"
    /\ UNCHANGED <<src, blocksize, histogram, scanned, header, tree, enc_lut, pos,
                   dst, error>>

----------------------------------------------------------------------------
(* Specifications *)

Fresh ==
    /\ histogram = <<>>
    /\ scanned = <<>>
    /\ header = <<>>
    /\ tree = None
    /\ enc_lut = <<>>
    /\ pos = 0
    /\ bit_seq = <<>>
    /\ write_buffer = <<>>
    /\ dst = <<>>
    /\ error = NoError

\* encode_file on a source that stays as it is
Init ==
    /\ pc = "start"
    /\ src \in SeqsUpTo(Bytes, MaxLen)
    /\ blocksize \in 1..MaxBlock
    /\ Fresh

Next == Scan \/ Prepare \/ OpenAndWriteHeader \/ StreamBlock \/ Finish

Spec == Init /\ [][Next]_vars

\* encode_file on a source that may change between the passes
InitChanged ==
    /\ pc = "start"
    /\ src \in SeqsUpTo(Bytes, MaxChLen)
    /\ blocksize \in 1..MaxBlock
    /\ Fresh

NextChanged == Next \/ ModifySource

SpecChanged == InitChanged /\ [][NextChanged]_vars

\* a dict has each key once
IsDict(d) == \A i, j \in 1..Len(d) : i # j => d[i][1] # d[j][1]

DictsOver(K, C) ==
    UNION {{d \in [1..n -> K \X C] : IsDict(d)} : n \in 0..Cardinality(K)}

CountsOf(d) == [i \in 1..Len(d) |-> d[i][2]]

\* build_lut_from_histogram on any histogram over HKeys, in any insertion order
InitLut ==
    /\ pc = "call_lut"
    /\ src = <<>>
    /\ blocksize = 1
    /\ histogram \in DictsOver(HKeys, {WNat(n) : n \in 0..MaxCount})
    /\ scanned = WSum(CountsOf(histogram))
    /\ header = <<>>
    /\ tree = None
    /\ enc_lut = <<>>
    /\ pos = 0
    /\ bit_seq = <<>>
    /\ write_buffer = <<>>
    /\ dst = <<>>
    /\ error = NoError

SpecLut == InitLut /\ [][BuildLut]_vars

\* The counts of the histograms given to the header serializer: every byte of the
\* 4-byte field is exercised, and so are counts that need a fifth byte
Pow2_32 == <<0, 0, 0, 0, 1>>
HeaderCounts == {WNat(0), WNat(1), WNat(255), WNat(256), <<4, 3, 2, 1>>,
                 <<255, 255, 255, 255>>, Pow2_32, <<4, 3, 2, 1, 1>>}

\* histograms of 255 and 256 keys, in descending key order
LargeHistograms ==
    {[i \in 1..n |-> <<n - i, <<4, 3, 2, 1>> >>] : n \in {255, 256}}

\* get_file_header_from_histogram on the histogram of a scan that counted
\* `scanned` bytes
InitHeader ==
    /\ pc = "call_header"
    /\ src = <<>>
    /\ blocksize = 1
    /\ histogram \in DictsOver(Bytes, HeaderCounts) \cup LargeHistograms
    /\ scanned = WSum(CountsOf(histogram))
    /\ header = <<>>
    /\ tree = None
    /\ enc_lut = <<>>
    /\ pos = 0
    /\ bit_seq = <<>>
    /\ write_buffer = <<>>
    /\ dst = <<>>
    /\ error = NoError

SpecHeader == InitHeader /\ [][SerializeHeader]_vars

\* the bit packer on any bit string
InitPack ==
    /\ pc = "call_pack"
    /\ src \in SeqsUpTo({0, 1}, MaxBits)
    /\ bit_seq = src
    /\ blocksize = 1
    /\ histogram = <<>>
    /\ scanned = <<>>
    /\ header = <<>>
    /\ tree = None
    /\ enc_lut = <<>>
    /\ pos = 0
    /\ write_buffer = <<>>
    /\ dst = <<>>
    /\ error = NoError

SpecPack == InitPack /\ [][Pack]_vars

----------------------------------------------------------------------------
(* Reference notions the claims are stated with *)

\* the bit at 1-based place k of a bit string, 0 beyond its end
BitAt(bits, k) == IF k <= Len(bits) THEN bits[k] ELSE 0

\* the value of bits 8i-7..8i, the first one as most significant bit
ByteAt(bits, i) ==
    128 * BitAt(bits, 8 * i - 7) + 64 * BitAt(bits, 8 * i - 6)
        + 32 * BitAt(bits, 8 * i - 5) + 16 * BitAt(bits, 8 * i - 4)
        + 8 * BitAt(bits, 8 * i - 3) + 4 * BitAt(bits, 8 * i - 2)
        + 2 * BitAt(bits, 8 * i - 1) + BitAt(bits, 8 * i)

\* the first n bytes of a bit string that is continued with '0' bits
BytesOf(bits, n) == [i \in 1..n |-> ByteAt(bits, i)]

\* the codes of the bytes of data, concatenated in order
RECURSIVE ConcatCodes(_, _)
ConcatCodes(data, table) ==
    IF data = <<>> THEN <<>>
    ELSE table[Head(data)] \o ConcatCodes(Tail(data), table)

\* header of the source's histogram, then the padded payload
ExpectedDestination(data) ==
    LET h == GetByteHistogramFromFile(data, ScanBlockSize)
        bits == ConcatCodes(data, BuildLutFromHistogram(h))
    IN GetFileHeaderFromHistogram(h) \o BytesOf(bits, (Len(bits) + 7) \div 8)

----------------------------------------------------------------------------
(* C1 *)

\* C1: when encode_file has finished on a source that did not change, the
\* destination is the header of the source's histogram followed by the codes of
\* the source bytes in order, padded with '0' bits to a whole number of bytes (no
\* byte added when the bit count is a multiple of 8) and cut into bytes most
\* significant bit first; the block size does not appear in it.
C1_Destination == pc = "done" => dst = ExpectedDestination(src)

\* a run of several blocks that carried bits over, wrote two payload bytes and
\* padded the last one
C1_Witness ==
    /\ pc = "done"
    /\ blocksize = 2
    /\ Len(src) = 6
    /\ Len(dst) = Len(header) + 2
    /\ write_buffer # <<>>

----------------------------------------------------------------------------
(* C4 *)

\* the low 32 bits of a count (the count itself below 2^32)
Low32(count) == WTrim(Take(count, 4))

\* C4: the header of a histogram of N keys has 6 + 5*N bytes: "HUFF", N in two
\* bytes big-endian, then per key in insertion order one entry of the byte value
\* and the count in four bytes big-endian (the count's low 32 bits).
C4_HeaderLayout ==
    pc = "header_done" =>
        LET N == Len(histogram)
        IN /\ Len(header) = 6 + 5 * N
           /\ SubSeq(header, 1, 4) = <<72, 85, 70, 70>>
           /\ 256 * header[5] + header[6] = N
           /\ header[5] \in 0..255 /\ header[6] \in 0..255
           /\ \A i \in 1..N :
                  LET at == 6 + 5 * (i - 1)
                  IN /\ header[at + 1] = histogram[i][1]
                     /\ WTrim(<<header[at + 5], header[at + 4], header[at + 3],
                                header[at + 2]>>) = Low32(histogram[i][2])
                     /\ \A j \in 2..5 : header[at + j] \in 0..255

\* the header of 256 keys, whose length field uses its high byte
C4_Witness ==
    /\ pc = "header_done"
    /\ Len(histogram) = 256
    /\ header[5] = 1
    /\ Len(header) = 1286

----------------------------------------------------------------------------
(* C9 *)

\* the frequency an entry's 4-byte field holds, for entry i of a header
EntryFrequency(h, i) ==
    LET at == 6 + 5 * (i - 1)
    IN WTrim(<<h[at + 5], h[at + 4], h[at + 3], h[at + 2]>>)

HeaderFrequencySum(h) ==
    LET n == (Len(h) - 6) \div 5
    IN WSum([i \in 1..n |-> EntryFrequency(h, i)])

\* C9: for a non-empty histogram the frequencies stored in the header add up to
\* the number of bytes the scan counted, whatever the counts are.
C9_HeaderSum ==
    (pc = "header_done" /\ histogram # <<>>) => HeaderFrequencySum(header) = scanned

----------------------------------------------------------------------------
(* C10 *)

\* C10: for a bit string s, get_write_buffer_from_bit_seq returns a remainder r
\* of fewer than 8 bits and a buffer b of floor(len(s)/8) bytes, byte i being bits
\* 8i-7..8i of s most significant bit first, r being the last len(s) mod 8 bits
\* of s; "1010100011" gives r = "11" and b = [0b10101000].
C10_BitPacker ==
    pc = "pack_done" =>
        LET s == src
            r == bit_seq
            b == write_buffer
        IN /\ Len(r) < 8
           /\ Len(b) = Len(s) \div 8
           /\ \A i \in 1..Len(b) : b[i] = ByteAt(s, i)
           /\ r = SubSeq(s, Len(s) - (Len(s) % 8) + 1, Len(s))
           /\ s = <<1, 0, 1, 0, 1, 0, 0, 0, 1, 1>> => (r = <<1, 1>> /\ b = <<168>>)

\* the documented case has been packed
C10_Witness ==
    /\ pc = "pack_done"
    /\ src = <<1, 0, 1, 0, 1, 0, 0, 0, 1, 1>>
    /\ bit_seq = <<1, 1>>
    /\ write_buffer = <<168>>

----------------------------------------------------------------------------
(* C2 *)

IsPrefix(a, b) == Len(a) <= Len(b) /\ SubSeq(b, 1, Len(a)) = a

PrefixFree(table) ==
    \A a, b \in DOMAIN table : a # b => ~IsPrefix(table[a], table[b])

\* C2: the code table of a histogram of at least 2 keys is prefix-free: no key's
\* code is a prefix of another key's code.
C2_PrefixFree ==
    (pc = "lut_done" /\ Len(histogram) >= 2) => PrefixFree(enc_lut)

\* a table of four keys with codes of three lengths
C2_Witness ==
    /\ pc = "lut_done"
    /\ Len(histogram) = 4
    /\ {Len(enc_lut[k]) : k \in DOMAIN enc_lut} = {1, 2, 3}

----------------------------------------------------------------------------
(* C3 *)

\* the value of a small count
RECURSIVE WInt(_)
WInt(c) == IF c = <<>> THEN 0 ELSE c[1] + 256 * WInt(Tail(c))

\* The tables a code table is compared to: every prefix-free table with codes no
\* longer than the deepest leaf a binary tree on all of HKeys can have. For each
\* key set K, <<K, the code lengths of those tables on K>>.
AltCodes == SeqsUpTo({0, 1}, Cardinality(HKeys) - 1)

PrefixFreeLengths ==
    {<<K, {[k \in K |-> Len(t[k])] : t \in {u \in [K -> AltCodes] : PrefixFree(u)}}>> :
        K \in SUBSET HKeys}

LengthsOn(K) == (CHOOSE p \in PrefixFreeLengths : p[1] = K)[2]

\* sum over the keys of count times code length
RECURSIVE TotalLength(_, _)
TotalLength(h, lens) ==
    IF h = <<>> THEN 0
    ELSE WInt(Head(h)[2]) * lens[Head(h)[1]] + TotalLength(Tail(h), lens)

\* C3: the code table of a histogram of at least 2 keys with positive counts has
\* a total encoded length no larger than that of any prefix-free table on the same
\* keys; {65:5, 66:2, 67:1} gives 65 one bit and 66, 67 two bits.
C3_Optimal ==
    (/\ pc = "lut_done"
     /\ Len(histogram) >= 2
     /\ \A i \in 1..Len(histogram) : histogram[i][2] # <<>>)
    => /\ \A lens \in LengthsOn(DictKeys(histogram)) :
              TotalLength(histogram, [k \in DOMAIN enc_lut |-> Len(enc_lut[k])])
                  <= TotalLength(histogram, lens)
       /\ histogram = << <<65, <<5>> >>, <<66, <<2>> >>, <<67, <<1>> >> >>
              => /\ Len(enc_lut[65]) = 1
                 /\ Len(enc_lut[66]) = 2
                 /\ Len(enc_lut[67]) = 2

\* the documented histogram has got its table
C3_Witness ==
    /\ pc = "lut_done"
    /\ histogram = << <<65, <<5>> >>, <<66, <<2>> >>, <<67, <<1>> >> >>
    /\ enc_lut = (65 :> <<1>> @@ 66 :> <<0, 1>> @@ 67 :> <<0, 0>>)

----------------------------------------------------------------------------
(* C5 *)

\* C5: the keys of the code table are the keys of the histogram, for every
\* histogram, the empty one and the one of a single key included.
C5_SameKeys == pc = "lut_done" => DOMAIN enc_lut = DictKeys(histogram)

\* a histogram of four keys, one of them counted zero times, has four codes
C5_Witness ==
    /\ pc = "lut_done"
    /\ Len(histogram) = 4
    /\ \E i \in 1..4 : histogram[i][2] = <<>>
    /\ Cardinality(DOMAIN enc_lut) = 4

----------------------------------------------------------------------------
(* C6 *)

\* the leaves of a tree, left to right
RECURSIVE LeavesOf(_)
LeavesOf(node) ==
    IF node.kind = "branch" THEN LeavesOf(node.left) \o LeavesOf(node.right)
    ELSE IF node.kind = "leaf" THEN <<node>>
    ELSE <<>>

----------------------------------------------------------------------------
(* C7 *)

\* C7: no code of a code table is the empty bit string; the only key of a
\* histogram of one key has a code of at least one bit.
C7_NoEmptyCode ==
    pc = "lut_done" =>
        /\ \A k \in DOMAIN enc_lut : Len(enc_lut[k]) >= 1
        /\ Len(histogram) = 1 =>
               /\ histogram[1][1] \in DOMAIN enc_lut
               /\ Len(enc_lut[histogram[1][1]]) >= 1

\* the table of a histogram of one key
C7_Witness ==
    /\ pc = "lut_done"
    /\ Len(histogram) = 1
    /\ DOMAIN enc_lut = {histogram[1][1]}
    /\ Len(enc_lut[histogram[1][1]]) = 1

----------------------------------------------------------------------------
(* C8 *)

Missing(data, table) == {i \in 1..Len(data) : data[i] \notin DOMAIN table}

\* the place of the first byte of data without a code
FirstMissing(data, table) ==
    CHOOSE i \in Missing(data, table) : \A j \in Missing(data, table) : i <= j

\* C8: the run fails exactly when the second pass meets a byte without a code;
\* the error then names the first such byte of the stream, and the destination
\* holds the header and the whole bytes of the codes of the blocks before the one
\* that holds that byte, nothing of that block and no padding.
C8_FailFast ==
    /\ pc = "done" => Missing(src, enc_lut) = {}
    /\ pc = "failed" =>
           /\ Missing(src, enc_lut) # {}
           /\ LET first == FirstMissing(src, enc_lut)
                  earlier == Take(src, ((first - 1) \div blocksize) * blocksize)
                  bits == ConcatCodes(earlier, enc_lut)
              IN /\ error = ValueError(src[first])
                 /\ dst = header \o BytesOf(bits, Len(bits) \div 8)

\* a run that failed in a later block, after a payload byte had been written, on
\* a source that holds two different bytes without a code
C8_Witness ==
    /\ pc = "failed"
    /\ pos > 0
    /\ Len(dst) > Len(header)
    /\ bit_seq # <<>>

\* a run that failed on a source holding two different bytes without a code
C8_WitnessTwoMissing ==
    /\ pc = "failed"
    /\ Cardinality({src[i] : i \in Missing(src, enc_lut)}) = 2

----------------------------------------------------------------------------
(* C11 *)

\* A min-priority queue keyed by (weight, insertion sequence number): a set of
\* entries [seq, node]. The least entry has the smallest weight and, among
\* those, the smallest sequence number.
QueueBefore(a, b) ==
    \/ WLess(a.node.byte_counter, b.node.byte_counter)
    \/ a.node.byte_counter = b.node.byte_counter /\ a.seq < b.seq

QueueMin(queue) == CHOOSE a \in queue : \A b \in queue \ {a} : QueueBefore(a, b)

\* take the least two, the first as left child and the second as right child, and
\* insert their branch under the next sequence number, until one node is left
RECURSIVE QueueTree(_, _)
QueueTree(queue, next) ==
    IF queue = {} THEN None
    ELSE IF Cardinality(queue) = 1 THEN QueueMin(queue).node
    ELSE LET first == QueueMin(queue)
             second == QueueMin(queue \ {first})
             branch == HuffmanBranch(WAdd(first.node.byte_counter,
                                          second.node.byte_counter),
                                     first.node, second.node)
         IN QueueTree((queue \ {first, second}) \cup {[seq |-> next, node |-> branch]},
                      next + 1)

\* the leaves are numbered in the stable weight-sorted order of the histogram
QueueTreeOfHistogram(h) ==
    LET leaves == GetLeavesFromHistogram(h)
    IN QueueTree({[seq |-> i, node |-> leaves[i]] : i \in 1..Len(leaves)},
                 Len(leaves) + 1)

\* C11: for a non-empty histogram the tree get_tree_from_leaves builds (pop the
\* first two, append their branch, stable re-sort by weight) is the tree a
\* min-priority queue keyed by (weight, insertion sequence number) builds, with
\* the same left and right child at every branch.
C11_SameAsQueue ==
    (pc = "lut_done" /\ histogram # <<>>) => tree = QueueTreeOfHistogram(histogram)

\* a tree of four keys in which a branch was merged with a leaf of its own
\* positive weight, the leaf, inserted earlier, having become the left child
C11_Witness ==
    /\ pc = "lut_done"
    /\ Len(histogram) = 4
    /\ tree.kind = "branch"
    /\ tree.left.kind = "branch"
    /\ tree.left.left.kind = "leaf"
    /\ tree.left.right.kind = "branch"
    /\ tree.left.left.byte_counter = tree.left.right.byte_counter
    /\ tree.left.left.byte_counter # WNat(0)

====
